---- MODULE Spec2Model ----
(***************************************************************************)
(* The conversation context engine of src/src/ai/context_manager.py        *)
(* (ContextManager) together with the persistence gateway of               *)
(* src/src/database/supabase_client.py (SupabaseClient) and the JSON file  *)
(* snapshot, as a state machine.                                           *)
(*                                                                         *)
(* Conventions.                                                            *)
(*  - A Python str is a sequence of characters (one-character strings; an  *)
(*    accented letter is written with a trailing "+", as in "i+"), so that *)
(*    lower(), " ".join and the substring test `kw in text` are computed.  *)
(*  - A dict is a function; a value that may be a dict or a scalar is a    *)
(*    tagged record (Scalar, Dict).                                        *)
(*  - Optional[T] is a sequence of length at most one: None is <<>>.       *)
(*  - An Enum member is written by its name ("USER_TEXT"), its .value by   *)
(*    the value string ("user_text").                                      *)
(*  - time.time() is the variable now, in milliseconds; the reads of one   *)
(*    call fall into the same millisecond and Tick moves the clock between *)
(*    calls.                                                               *)
(***************************************************************************)
EXTENDS Integers, Sequences, FiniteSets, TLC

\* ------------------------------------------------------------------ bounds
MaxW == 4
MaxAdds == 11
MaxStarts == 2
MaxPhaseAdds == 7
MaxScoreAdds == 3
MaxStoreAdds == 2
MaxClock == 1
MaxFaultAdds == 1
MaxRows == 1
MaxDropAdds == 1
MaxGatewayAdds == 3
MaxMergeAdds == 3
MaxSessionAdds == 3
MaxProjectionW == 2
MaxProjectionAdds == 4
MaxSummaryAdds == 3

\* --------------------------------------------------------------- constants
DefaultWindow == 20
RetentionFactor == 2
IntroKeep == 3

VARIABLES
    max_context_messages,   \* ContextManager.max_context_messages
    db_client,              \* ContextManager.db_client: None or Some(gateway)
    current_context,        \* ContextManager.current_context: None or Some(context)
    conversations,          \* the store's conversations table, a list of rows
    leads,                  \* the store's leads table, a list of rows
    files,                  \* the snapshot files: path -> text
    now,                    \* the wall clock, ms
    uuids,                  \* how many uuid4() values were drawn
    ret,                    \* the last call: its name, argument, value and gateway calls
    log,                    \* history: every turn created in the active conversation
    kept,                   \* history: for each retained turn, its index in log
    observed                \* history: an earlier analysis, None or Some(Observation)

config == <<max_context_messages, db_client>>
store == <<conversations, leads>>
vars == <<config, current_context, store, files, now, uuids, ret, log, kept, observed>>

\* ----------------------------------------------------------------- helpers
None == <<>>
Some(x) == <<x>>
EmptyDict == [k \in {} |-> k]

Min(a, b) == IF a < b THEN a ELSE b
Max(a, b) == IF a > b THEN a ELSE b

\* Python s[:n], n >= 0
Prefix(s, n) == SubSeq(s, 1, Min(n, Len(s)))

\* Python s[-n:], n >= 0; s[-0:] is s[0:], the whole list
Suffix(s, n) == IF n = 0 THEN s ELSE SubSeq(s, Max(1, Len(s) - n + 1), Len(s))

\* ------------------------------------------------------------------- enums
MessageType == {"USER_TEXT", "USER_AUDIO", "AGENT_RESPONSE", "SYSTEM_INFO", "LEAD_UPDATE"}

ConversationPhase ==
    <<"INTRODUCTION", "DISCOVERY", "QUALIFICATION", "PRESENTATION",
      "OBJECTION_HANDLING", "CLOSING", "FOLLOW_UP">>

\* -------------------------------------------------------------- the context
ctx == current_context[1]

ConversationSummary(t) ==
    [key_points |-> <<>>, mentioned_needs |-> <<>>, objections_raised |-> <<>>,
     interests_shown |-> <<>>, next_actions |-> <<>>, last_updated |-> t]

\* f"session_{int(time.time() * 1000)}"
SessionId(t) == <<"session", t>>

\* str(uuid.uuid4()): the k-th value drawn, different from every other
Uuid4(k) == <<"uuid", k>>

\* f"msg_{len(messages)}_{int(time.time() * 1000)}"
MessageId(n, t) == <<"msg", n, t>>

\* start_new_conversation: the context it builds. lead_id is Optional.
\* A lead_id argument counted as given whenever it is not None
GivenNotNone(lead_id) == lead_id # None

\* `lead_id or str(uuid.uuid4())`: the argument is used when it is truthy, that
\* is neither None nor the empty string
Given(lead_id) == lead_id # None /\ lead_id[1] # <<>>

start_new_conversation(lead_id, t, k) ==
    [session_id         |-> SessionId(t),
     lead_id            |-> IF Given(lead_id) THEN lead_id[1] ELSE Uuid4(k),
     start_time         |-> t,
     last_activity      |-> t,
     current_phase      |-> "INTRODUCTION",
     messages           |-> <<>>,
     summary            |-> ConversationSummary(t),
     lead_info          |-> EmptyDict,
     total_interactions |-> 0]

ConversationMessage(n, role, content, message_type, metadata, t) ==
    [id |-> MessageId(n, t), role |-> role, content |-> content,
     message_type |-> message_type, timestamp |-> t, metadata |-> metadata]

\* RetainMessages with the threshold test off by one (>= for >)
RetainMessagesEager(msgs, w) ==
    IF Len(msgs) >= w * RetentionFactor
    THEN Prefix(msgs, IntroKeep) \o Suffix(msgs, w)
    ELSE msgs

\* RetainMessages trimming one turn late
RetainMessagesLate(msgs, w) ==
    IF Len(msgs) > w * RetentionFactor + 1
    THEN Prefix(msgs, IntroKeep) \o Suffix(msgs, w)
    ELSE msgs

\* RetainMessages keeping one turn too few at the recent end
RetainMessagesShort(msgs, w) ==
    IF Len(msgs) > w * RetentionFactor
    THEN Prefix(msgs, IntroKeep) \o Suffix(msgs, Max(w, 1) - 1)
    ELSE msgs

\* The retention policy of add_message, on any list kept in step with messages
RetainMessages(msgs, w) ==
    IF Len(msgs) > w * RetentionFactor
    THEN Prefix(msgs, IntroKeep) \o Suffix(msgs, w)
    ELSE msgs

\* add_message on an active context c: the context afterwards
add_message(c, role, content, message_type, metadata, t, w) ==
    LET message == ConversationMessage(Len(c.messages), role, content,
                                       message_type, metadata, t)
    IN  [c EXCEPT !.messages = RetainMessages(Append(c.messages, message), w),
                  !.last_activity = t,
                  !.total_interactions = c.total_interactions + 1]

\* The context add_message works on: the active one, or a fresh one
ContextOrNew ==
    IF current_context = None THEN start_new_conversation(None, now, uuids + 1) ELSE ctx

Interactions == IF current_context = None THEN 0 ELSE ctx.total_interactions

\* ------------------------------------------------------------------ strings
\* str.lower() on the letters A-Z; every other character is left as it is
LowerChar(ch) ==
    CASE ch = "A" -> "a" [] ch = "B" -> "b" [] ch = "C" -> "c" [] ch = "D" -> "d"
      [] ch = "E" -> "e" [] ch = "F" -> "f" [] ch = "G" -> "g" [] ch = "H" -> "h"
      [] ch = "I" -> "i" [] ch = "J" -> "j" [] ch = "K" -> "k" [] ch = "L" -> "l"
      [] ch = "M" -> "m" [] ch = "N" -> "n" [] ch = "O" -> "o" [] ch = "P" -> "p"
      [] ch = "Q" -> "q" [] ch = "R" -> "r" [] ch = "S" -> "s" [] ch = "T" -> "t"
      [] ch = "U" -> "u" [] ch = "V" -> "v" [] ch = "W" -> "w" [] ch = "X" -> "x"
      [] ch = "Y" -> "y" [] ch = "Z" -> "z" [] OTHER -> ch

\* lower() left out
LowerKeep(s) == s

Lower(s) == [i \in 1..Len(s) |-> LowerChar(s[i])]

\* sep.join(parts)
RECURSIVE Join(_, _)
Join(sep, parts) ==
    IF parts = <<>> THEN <<>>
    ELSE IF Len(parts) = 1 THEN parts[1]
    ELSE parts[1] \o sep \o Join(sep, Tail(parts))

\* kw in text: kw occurs as a substring
Contains(kw, text) ==
    \E i \in 1..(Len(text) - Len(kw) + 1) :
        /\ text[i] = kw[1]
        /\ SubSeq(text, i, i + Len(kw) - 1) = kw

\* ------------------------------------------------------- the phase classifier
PhaseWindow == 6
MinPhaseMessages == 2

KW_INTRODUCTION ==
    << <<"h","o","l","a">>,
       <<"b","u","e","n","o","s"," ","d","i+","a","s">>,
       <<"m","e"," ","l","l","a","m","o">>,
       <<"s","o","y">>,
       <<"e","m","p","r","e","s","a">> >>

KW_DISCOVERY ==
    << <<"n","e","c","e","s","i","t","o">>,
       <<"p","r","o","b","l","e","m","a">>,
       <<"b","u","s","c","a","m","o","s">>,
       <<"q","u","e","r","e","m","o","s">>,
       <<"a","y","u","d","a">> >>

KW_QUALIFICATION ==
    << <<"p","r","e","s","u","p","u","e","s","t","o">>,
       <<"t","i","m","e","l","i","n","e">>,
       <<"c","u","a+","n","d","o">>,
       <<"i","n","v","e","r","s","i","o+","n">>,
       <<"c","o","s","t","o">> >>

KW_PRESENTATION ==
    << <<"c","o+","m","o"," ","f","u","n","c","i","o","n","a">>,
       <<"c","a","r","a","c","t","e","r","i+","s","t","i","c","a","s">>,
       <<"b","e","n","e","f","i","c","i","o","s">>,
       <<"d","e","m","o">> >>

KW_OBJECTION_HANDLING ==
    << <<"p","e","r","o">>,
       <<"s","i","n"," ","e","m","b","a","r","g","o">>,
       <<"p","r","e","o","c","u","p","a">>,
       <<"d","u","d","a">>,
       <<"n","o"," ","e","s","t","o","y"," ","s","e","g","u","r","o">> >>

KW_CLOSING ==
    << <<"e","m","p","e","z","a","r">>,
       <<"c","o","n","t","r","a","t","a","r">>,
       <<"s","i","g","u","i","e","n","t","e"," ","p","a","s","o">>,
       <<"p","r","o","p","u","e","s","t","a">>,
       <<"r","e","u","n","i","o+","n">> >>

KW_FOLLOW_UP ==
    << <<"d","e","s","p","u","e+","s">>,
       <<"p","r","o+","x","i","m","a">>,
       <<"c","o","n","t","a","c","t","a","r">>,
       <<"l","l","a","m","a","r">>,
       <<"e","m","a","i","l">> >>

\* phase_keywords, in the order the dict is written (its iteration order)
phase_keywords ==
    [p \in {ConversationPhase[i] : i \in 1..Len(ConversationPhase)} |->
        CASE p = "INTRODUCTION" -> KW_INTRODUCTION
          [] p = "DISCOVERY" -> KW_DISCOVERY
          [] p = "QUALIFICATION" -> KW_QUALIFICATION
          [] p = "PRESENTATION" -> KW_PRESENTATION
          [] p = "OBJECTION_HANDLING" -> KW_OBJECTION_HANDLING
          [] p = "CLOSING" -> KW_CLOSING
          [] p = "FOLLOW_UP" -> KW_FOLLOW_UP]

\* [msg.content.lower() for msg in messages[-6:] if msg.role == "user"], taking
\* every turn of the window whatever its role
UserMessagesAnyRole(msgs) ==
    LET window == Suffix(msgs, PhaseWindow)
    IN  [i \in 1..Len(window) |-> Lower(window[i].content)]

\* [msg.content.lower() for msg in messages[-6:] if msg.role == "user"]
UserMessages(msgs) ==
    LET window == SelectSeq(Suffix(msgs, PhaseWindow), LAMBDA m : m.role = "user")
    IN  [i \in 1..Len(window) |-> Lower(window[i].content)]

\* " ".join(user_messages)
ConversationText(msgs) == Join(<<" ">>, UserMessages(msgs))

\* sum(1 for keyword in keywords if keyword in conversation_text)
Score(keywords, text) ==
    Cardinality({i \in 1..Len(keywords) : Contains(keywords[i], text)})

\* phase_scores, filled in the order of phase_keywords
PhaseScores(text) ==
    [i \in 1..Len(ConversationPhase) |-> Score(phase_keywords[ConversationPhase[i]], text)]

\* max(...) returning the last of the largest scores
RECURSIVE MaxLast(_, _, _)
MaxLast(scores, i, best) ==
    IF i > Len(scores) THEN best
    ELSE MaxLast(scores, i + 1, IF scores[i] >= scores[best] THEN i ELSE best)

\* max(phase_scores.items(), key=lambda x: x[1]): the scan keeps the first of
\* the largest scores
RECURSIVE MaxFirst(_, _, _)
MaxFirst(scores, i, best) ==
    IF i > Len(scores) THEN best
    ELSE MaxFirst(scores, i + 1, IF scores[i] > scores[best] THEN i ELSE best)

\* analyze_conversation_phase on an active context with at least 2 messages:
\* the phase it detects. phase_scores has an entry per phase, so it is never
\* empty and the branch returning current_phase is not taken.
detected_phase(c) ==
    LET phase_scores == PhaseScores(ConversationText(c.messages))
    IN  IF Len(phase_scores) > 0
        THEN ConversationPhase[MaxFirst(phase_scores, 2, 1)]
        ELSE c.current_phase

\* ------------------------------------------------- the conversation summary
\* The summary given the threshold of the phase analysis
MinSummaryMessagesAsPhase == MinPhaseMessages

\* len(messages) < 3: no summary below three messages
MinSummaryMessages == 3

need_keywords ==
    << <<"n","e","c","e","s","i","t","o">>,
       <<"n","e","c","e","s","i","t","a","m","o","s">>,
       <<"b","u","s","c","a","m","o","s">>,
       <<"q","u","e","r","e","m","o","s">>,
       <<"r","e","q","u","i","e","r","o">> >>

objection_keywords ==
    << <<"p","e","r","o">>,
       <<"s","i","n"," ","e","m","b","a","r","g","o">>,
       <<"p","r","o","b","l","e","m","a">>,
       <<"p","r","e","o","c","u","p","a">>,
       <<"d","u","d","a">> >>

\* text.split("."): the pieces between the full stops, empty ones included
RECURSIVE Split(_)
Split(text) ==
    IF \A i \in 1..Len(text) : text[i] # "."
    THEN <<text>>
    ELSE LET dot == CHOOSE i \in 1..Len(text) :
                        text[i] = "." /\ \A j \in 1..(i - 1) : text[j] # "."
         IN  <<SubSeq(text, 1, dot - 1)>> \o Split(SubSeq(text, dot + 1, Len(text)))

\* sentence.strip(): without the blanks at either end
Strip(sentence) ==
    LET inked == {i \in 1..Len(sentence) : sentence[i] # " "}
    IN  IF inked = {} THEN <<>>
        ELSE SubSeq(sentence,
                    CHOOSE i \in inked : \A j \in inked : i <= j,
                    CHOOSE i \in inked : \A j \in inked : j <= i)

\* The two loops without the test that the fragment is not in the list yet
RECURSIVE FragmentsRepeated(_, _, _, _)
FragmentsRepeated(found, keywords, sentences, text) ==
    IF keywords = <<>> THEN found
    ELSE IF sentences = <<>> \/ ~Contains(Head(keywords), text)
    THEN FragmentsRepeated(found, Tail(keywords), Split(text), text)
    ELSE FragmentsRepeated(IF Contains(Head(keywords), Head(sentences))
                           THEN Append(found, Strip(Head(sentences)))
                           ELSE found,
                           keywords, Tail(sentences), text)

\* The two loops over keywords and sentences: found with, for each keyword
\* in the text in turn, the stripped sentences that hold it and are not in the
\* list yet
RECURSIVE Fragments(_, _, _, _)
Fragments(found, keywords, sentences, text) ==
    IF keywords = <<>> THEN found
    ELSE IF sentences = <<>> \/ ~Contains(Head(keywords), text)
    THEN Fragments(found, Tail(keywords), Split(text), text)
    ELSE LET fragment == Strip(Head(sentences))
             holds == Contains(Head(keywords), Head(sentences))
             listed == \E i \in 1..Len(found) : found[i] = fragment
         IN  Fragments(IF holds /\ ~listed THEN Append(found, fragment) ELSE found,
                       keywords, Tail(sentences), text)

\* A summary whose last_updated is left as it was
SummaryStampKept(c, t) == c

\* summary.last_updated = time.time()
SummaryStamp(c, t) == [c EXCEPT !.summary.last_updated = t]

\* update_conversation_summary past its threshold test, at time t
update_conversation_summary(c, t) ==
    LET recent == SelectSeq(Suffix(c.messages, 10), LAMBDA m : m.role = "user")
        recent_user_messages == [i \in 1..Len(recent) |-> recent[i].content]
        conversation_text == Lower(Join(<<" ">>, recent_user_messages))
        sentences == Split(conversation_text)
    IN  IF recent_user_messages = <<>> THEN c
        ELSE SummaryStamp(
                 [c EXCEPT
                    !.summary.mentioned_needs =
                        Fragments(@, need_keywords, sentences, conversation_text),
                    !.summary.objections_raised =
                        Fragments(@, objection_keywords, sentences, conversation_text)],
                 t)

\* --------------------------------------------------------- the lead profile
\* A value of lead_info: a scalar or a nested dict
Scalar(x) == [t |-> "scalar", v |-> x]
Dict(f) == [t |-> "dict", v |-> f]

\* dict.update: every value of update_dict replaces the one of base_dict
deep_update_shallow(base_dict, update_dict) ==
    [key \in DOMAIN base_dict \cup DOMAIN update_dict |->
        IF key \in DOMAIN update_dict THEN update_dict[key] ELSE base_dict[key]]

\* _deep_update(base_dict, update_dict): base_dict afterwards
RECURSIVE deep_update(_, _)
deep_update(base_dict, update_dict) ==
    [key \in DOMAIN base_dict \cup DOMAIN update_dict |->
        IF key \notin DOMAIN update_dict THEN base_dict[key]
        ELSE IF /\ key \in DOMAIN base_dict
                /\ base_dict[key].t = "dict"
                /\ update_dict[key].t = "dict"
             THEN Dict(deep_update(base_dict[key].v, update_dict[key].v))
             ELSE update_dict[key]]

\* list(new_info.keys())
RECURSIVE Keys(_)
Keys(keyset) ==
    IF keyset = {} THEN <<>>
    ELSE LET k == CHOOSE x \in keyset : TRUE
         IN  <<k>> \o Keys(keyset \ {k})

\* A lead_update turn that records one of the keys only
UpdatedFieldsFirst(new_info) == <<CHOOSE k \in DOMAIN new_info : TRUE>>

\* {"updated_fields": list(new_info.keys())}: what the lead_update turn records
UpdatedFields(new_info) == Keys(DOMAIN new_info)

\* f"Lead information updated: {list(new_info.keys())}": the fixed text, then
\* the keys
LeadUpdateContent(new_info) == <<"Lead information updated: ">> \o Keys(DOMAIN new_info)

\* ------------------------------------------------------------ serialisation
MessageTypeValue(m) ==
    CASE m = "USER_TEXT" -> "user_text"
      [] m = "USER_AUDIO" -> "user_audio"
      [] m = "AGENT_RESPONSE" -> "agent_response"
      [] m = "SYSTEM_INFO" -> "system_info"
      [] m = "LEAD_UPDATE" -> "lead_update"

PhaseValue(p) ==
    CASE p = "INTRODUCTION" -> "introduction"
      [] p = "DISCOVERY" -> "discovery"
      [] p = "QUALIFICATION" -> "qualification"
      [] p = "PRESENTATION" -> "presentation"
      [] p = "OBJECTION_HANDLING" -> "objection_handling"
      [] p = "CLOSING" -> "closing"
      [] p = "FOLLOW_UP" -> "follow_up"

Phases == {ConversationPhase[i] : i \in 1..Len(ConversationPhase)}

\* MessageType(value) and ConversationPhase(value) raise ValueError unless the
\* value is a member's
IsMessageTypeValue(v) == \E m \in MessageType : MessageTypeValue(m) = v
IsPhaseValue(v) == \E p \in Phases : PhaseValue(p) = v
\* A reader that takes every kind for plain user text
MessageTypeAsText(v) == "USER_TEXT"

MessageTypeOf(v) == CHOOSE m \in MessageType : MessageTypeValue(m) = v
PhaseOf(v) == CHOOSE p \in Phases : PhaseValue(p) = v

\* ConversationMessage.to_dict
MessageToDict(m) == [m EXCEPT !.message_type = MessageTypeValue(m.message_type)]

\* ConversationContext.to_dict
ContextToDict(c) ==
    [session_id         |-> c.session_id,
     lead_id            |-> c.lead_id,
     start_time         |-> c.start_time,
     last_activity      |-> c.last_activity,
     current_phase      |-> PhaseValue(c.current_phase),
     messages           |-> [i \in 1..Len(c.messages) |-> MessageToDict(c.messages[i])],
     summary            |-> c.summary,
     lead_info          |-> c.lead_info,
     total_interactions |-> c.total_interactions]

\* json.dumps(value) is a text json.loads reads back; Garbled is a text it rejects
JsonDumps(value) == [json |-> TRUE, value |-> value]
Garbled == [json |-> FALSE, value |-> EmptyDict]

MessageKeys == {"id", "role", "content", "message_type", "timestamp"}
SummaryKeys == {"key_points", "mentioned_needs", "objections_raised",
                "interests_shown", "next_actions", "last_updated"}

\* dict.get(key, default)
Get(d, key, default) == IF key \in DOMAIN d THEN d[key] ELSE default

\* One message of a snapshot: the keys read with [] must be there and the kind
\* must be a MessageType value
MessageLoads(msg_data) ==
    /\ MessageKeys \subseteq DOMAIN msg_data
    /\ IsMessageTypeValue(msg_data.message_type)

MessageFromDict(msg_data) ==
    [id           |-> msg_data.id,
     role         |-> msg_data.role,
     content      |-> msg_data.content,
     message_type |-> MessageTypeOf(msg_data.message_type),
     timestamp    |-> msg_data.timestamp,
     metadata     |-> Get(msg_data, "metadata", EmptyDict)]

MessagesFromDicts(list) == [i \in 1..Len(list) |-> MessageFromDict(list[i])]

\* load_context: whether the try block runs to its end on this text
FileLoads(text) ==
    /\ text.json
    /\ LET data == text.value
       IN  /\ "messages" \in DOMAIN data
           /\ \A i \in 1..Len(data.messages) : MessageLoads(data.messages[i])
           /\ "summary" \in DOMAIN data
           /\ DOMAIN data.summary = SummaryKeys
           /\ {"session_id", "lead_id", "start_time", "last_activity", "current_phase",
               "lead_info", "total_interactions"} \subseteq DOMAIN data
           /\ IsPhaseValue(data.current_phase)

\* load_context: the context it builds
ContextFromFile(data) ==
    [session_id         |-> data.session_id,
     lead_id            |-> data.lead_id,
     start_time         |-> data.start_time,
     last_activity      |-> data.last_activity,
     current_phase      |-> PhaseOf(data.current_phase),
     messages           |-> MessagesFromDicts(data.messages),
     summary            |-> data.summary,
     lead_info          |-> data.lead_info,
     total_interactions |-> data.total_interactions]

\* load_conversation_from_db reading every field the way load_context does
RowLoadsStrict(row) ==
    /\ "conversation_data" \in DOMAIN row
    /\ FileLoads(row.conversation_data)

\* load_conversation_from_db: whether the try block runs to its end on this row
RowLoads(row) ==
    LET text == Get(row, "conversation_data", JsonDumps(EmptyDict))
    IN  /\ text.json
        /\ LET context_data == text.value
               messages == Get(context_data, "messages", <<>>)
           IN  /\ \A i \in 1..Len(messages) : MessageLoads(messages[i])
               /\ {"session_id", "lead_id", "start_time", "last_activity",
                   "current_phase"} \subseteq DOMAIN context_data
               /\ IsPhaseValue(context_data.current_phase)

\* load_conversation_from_db: the context it builds; t is time.time()
ContextFromRow(row, t) ==
    LET context_data == row.conversation_data.value
        summary_data == Get(context_data, "summary", EmptyDict)
    IN  [session_id         |-> context_data.session_id,
         lead_id            |-> context_data.lead_id,
         start_time         |-> context_data.start_time,
         last_activity      |-> context_data.last_activity,
         current_phase      |-> PhaseOf(context_data.current_phase),
         messages           |-> MessagesFromDicts(Get(context_data, "messages", <<>>)),
         summary            |->
             [key_points        |-> Get(summary_data, "key_points", <<>>),
              mentioned_needs   |-> Get(summary_data, "mentioned_needs", <<>>),
              objections_raised |-> Get(summary_data, "objections_raised", <<>>),
              interests_shown   |-> Get(summary_data, "interests_shown", <<>>),
              next_actions      |-> Get(summary_data, "next_actions", <<>>),
              last_updated      |-> Get(summary_data, "last_updated", t)],
         lead_info          |-> Get(context_data, "lead_info", EmptyDict),
         total_interactions |-> Get(context_data, "total_interactions", 0)]

\* The active context after a load that installs whatever it had parsed when it
\* failed
AfterLoadPartial(loads, built, current) ==
    IF loads THEN Some(built)
    ELSE IF current = None THEN None
    ELSE Some([current[1] EXCEPT !.messages = <<>>])

\* The active context after a load: the context built when the try block ran
\* to its end (the assignment is its last statement), the one before otherwise
AfterLoad(loads, built, current) == IF loads THEN Some(built) ELSE current

\* ------------------------------------------------------- the persistence gateway
\* _prepare_conversation_data: the columns the engine reads back
ConversationRecord(id, session_id, context_data) ==
    [id |-> id, session_id |-> session_id, conversation_data |-> JsonDumps(context_data)]

\* The id the store gives the k-th row of a table
RowId(table, k) == <<table, k>>

\* get_conversation(session_id): what it can answer. With several rows of that
\* session_id, result.data[0] is whichever the store lists first. outcome
\* "none" is an error SupabaseClient swallows, "raise" a gateway that raises.
Answer(raised, row) == [raised |-> raised, row |-> row]

\* A lookup that never finds a record
get_conversation_blind(session_id, outcome) ==
    IF outcome = "raise" THEN {Answer(TRUE, None)} ELSE {Answer(FALSE, None)}

get_conversation(session_id, outcome) ==
    LET found == {i \in 1..Len(conversations) : conversations[i].session_id = session_id}
    IN  CASE outcome = "raise" -> {Answer(TRUE, None)}
          [] outcome = "none" -> {Answer(FALSE, None)}
          [] OTHER -> IF found = {} THEN {Answer(FALSE, None)}
                      ELSE {Answer(FALSE, Some(conversations[i])) : i \in found}

\* A lookup that never finds a lead
get_lead_blind(lead_id, outcome) ==
    IF outcome = "raise" THEN {Answer(TRUE, None)} ELSE {Answer(FALSE, None)}

\* get_lead(lead_id)
get_lead(lead_id, outcome) ==
    LET found == {i \in 1..Len(leads) : leads[i].id = lead_id}
    IN  CASE outcome = "raise" -> {Answer(TRUE, None)}
          [] outcome = "none" -> {Answer(FALSE, None)}
          [] OTHER -> IF found = {} THEN {Answer(FALSE, None)}
                      ELSE {Answer(FALSE, Some(leads[i])) : i \in found}

\* The default file of save_context: f"context_{session_id}.json"
DefaultPath(session_id) == <<"context_session", session_id[2]>>

\* ----------------------------------------------------------------- actions
\* What a call returned, the gateway calls it made, and the call made before it
Returned(op, arg, val, gateway) ==
    [op |-> op, arg |-> arg, val |-> val, gateway |-> gateway, prev |-> ret.op]

NoArg == <<>>

StartNewConversation(lead_id) ==
    /\ current_context' = Some(start_new_conversation(lead_id, now, uuids + 1))
    /\ uuids' = IF Given(lead_id) THEN uuids ELSE uuids + 1
    /\ ret' = Returned("start_new_conversation", lead_id, Some(SessionId(now)), <<>>)
    /\ log' = <<>>
    /\ kept' = <<>>
    /\ UNCHANGED <<config, now, store, files, observed>>

AddMessage(role, content, message_type, metadata) ==
    LET c    == ContextOrNew
        c2   == add_message(c, role, content, message_type, metadata, now,
                            max_context_messages)
        made == ConversationMessage(Len(c.messages), role, content,
                                    message_type, metadata, now)
        log0 == IF current_context = None THEN <<>> ELSE log
        kept0 == IF current_context = None THEN <<>> ELSE kept
    IN  /\ current_context' = Some(c2)
        /\ uuids' = IF current_context = None THEN uuids + 1 ELSE uuids
        /\ ret' = Returned("add_message", NoArg, Some(made.id), <<>>)
        /\ log' = Append(log0, made)
        /\ kept' = RetainMessages(Append(kept0, Len(log0) + 1), max_context_messages)
        /\ UNCHANGED <<config, now, store, files, observed>>

AnalyzeConversationPhase ==
    /\ IF current_context = None \/ Len(ctx.messages) < MinPhaseMessages
       THEN /\ ret' = Returned("analyze_conversation_phase", NoArg, Some("INTRODUCTION"), <<>>)
            /\ UNCHANGED current_context
       ELSE /\ current_context' = Some([ctx EXCEPT !.current_phase = detected_phase(ctx)])
            /\ ret' = Returned("analyze_conversation_phase", NoArg,
                               Some(detected_phase(ctx)), <<>>)
    /\ UNCHANGED <<config, now, uuids, store, files, log, kept, observed>>

UpdateConversationSummary ==
    /\ IF current_context = None \/ Len(ctx.messages) < MinSummaryMessages
       THEN UNCHANGED current_context
       ELSE current_context' = Some(update_conversation_summary(ctx, now))
    /\ ret' = Returned("update_conversation_summary", NoArg, None, <<>>)
    /\ UNCHANGED <<config, now, uuids, store, files, log, kept, observed>>

\* _generate_conversation_insights on context c
generate_conversation_insights(c) ==
    LET user_messages == SelectSeq(c.messages, LAMBDA m : m.role = "user")
    IN  [engagement_level       |-> IF c.total_interactions > 5 THEN "high"
                                    ELSE IF c.total_interactions > 2 THEN "medium"
                                    ELSE "low",
         response_frequency     |-> Len(user_messages),
         conversation_length    |-> Len(c.messages),
         last_user_message_time |-> IF user_messages = <<>> THEN None
                                    ELSE Some(user_messages[Len(user_messages)].timestamp),
         conversation_phase     |-> PhaseValue(c.current_phase),
         key_topics_mentioned   |-> Len(c.summary.mentioned_needs),
         objections_count       |-> Len(c.summary.objections_raised)]

\* Every kind of turn shown
ShownKindsAll == MessageType

\* [MessageType.USER_TEXT, MessageType.USER_AUDIO, MessageType.AGENT_RESPONSE]
ShownKinds == {"USER_TEXT", "USER_AUDIO", "AGENT_RESPONSE"}

\* The dict get_conversation_context_for_ai builds from context c at time t
\* with window w. The duration is the quotient of the two numbers given, the
\* clock being in milliseconds.
get_conversation_context_for_ai(c, t, w) ==
    LET recent_messages == Suffix(c.messages, w)
        shown == SelectSeq(recent_messages, LAMBDA msg : msg.message_type \in ShownKinds)
    IN  [context_summary |->
             [conversation_phase            |-> PhaseValue(c.current_phase),
              total_interactions            |-> c.total_interactions,
              conversation_duration_minutes |-> <<t - c.start_time, 60000>>,
              lead_info                     |-> c.lead_info,
              summary                       |-> c.summary],
         recent_messages |->
             [i \in 1..Len(shown) |-> [role |-> shown[i].role,
                                        content |-> shown[i].content,
                                        timestamp |-> shown[i].timestamp]],
         conversation_insights |-> generate_conversation_insights(c)]

\* The parts of the returned dict that are the context's own objects and not
\* copies: lead_info is passed as it is, the summary goes through asdict, the
\* message list is built anew
ProjectionShares == {"lead_info"}

GetConversationContextForAi ==
    /\ ret' = Returned("get_conversation_context_for_ai", NoArg,
                       IF current_context = None THEN EmptyDict
                       ELSE get_conversation_context_for_ai(ctx, now, max_context_messages),
                       <<>>)
    /\ UNCHANGED <<config, current_context, now, uuids, store, files, log, kept, observed>>

\* _save_or_update_lead_in_db(lead_info) on context c: the context, the leads
\* table and the gateway calls afterwards. g is the outcome of get_lead, u of
\* update_lead or create_lead.
LeadSaved(c, table, calls) == [c |-> c, leads |-> table, calls |-> calls]

\* _save_or_update_lead_in_db leaving through an except block that has already
\* taken a new identifier
OnLeadErrorAdopting(c, calls) ==
    LeadSaved([c EXCEPT !.lead_id = RowId("lead", Len(leads) + 1)], leads, calls)

\* _save_or_update_lead_in_db leaving through its except block after the
\* gateway calls made so far
OnLeadError(c, calls) == LeadSaved(c, leads, calls)

save_or_update_lead_in_db(c, lead_info, g, u) ==
    {   IF existing.raised THEN OnLeadError(c, <<"get_lead">>)
        ELSE IF existing.row # None
        THEN IF u = "raise" THEN OnLeadError(c, <<"get_lead", "update_lead">>)
             ELSE LeadSaved(c,
                      IF u = "ok"
                      THEN [i \in 1..Len(leads) |->
                               IF leads[i].id = c.lead_id
                               THEN [leads[i] EXCEPT !.raw_lead_data = lead_info]
                               ELSE leads[i]]
                      ELSE leads,
                      <<"get_lead", "update_lead">>)
        ELSE IF u = "ok"
        THEN LeadSaved([c EXCEPT !.lead_id = RowId("lead", Len(leads) + 1)],
                 Append(leads, [id |-> RowId("lead", Len(leads) + 1),
                                raw_lead_data |-> lead_info]),
                 <<"get_lead", "create_lead">>)
        ELSE IF u = "raise" THEN OnLeadError(c, <<"get_lead", "create_lead">>)
        ELSE LeadSaved(c, leads, <<"get_lead", "create_lead">>)
      : existing \in get_lead(c.lead_id, g) }

UpdateLeadInfo(new_info, g, u) ==
    IF current_context = None
    THEN /\ ret' = Returned("update_lead_info", new_info, None, <<>>)
         /\ UNCHANGED <<config, current_context, now, uuids, store, files, log, kept, observed>>
    ELSE LET merged == [ctx EXCEPT !.lead_info = deep_update(ctx.lead_info, new_info)]
             content == LeadUpdateContent(new_info)
             meta == [updated_fields |-> UpdatedFields(new_info)]
         IN  \E saved \in IF db_client = None
                          THEN {LeadSaved(merged, leads, <<>>)}
                          ELSE save_or_update_lead_in_db(merged, new_info, g, u) :
                /\ current_context' =
                       Some(add_message(saved.c, "system", content, "LEAD_UPDATE", meta,
                                        now, max_context_messages))
                /\ leads' = saved.leads
                /\ ret' = Returned("update_lead_info", new_info, None, saved.calls)
                /\ log' = Append(log, ConversationMessage(Len(ctx.messages), "system",
                                         content, "LEAD_UPDATE", meta, now))
                /\ kept' = RetainMessages(Append(kept, Len(log) + 1), max_context_messages)
                /\ UNCHANGED <<config, now, uuids, conversations, files, observed>>

\* save_conversation_to_db leaving through an except block that forgets the
\* conversation
OnSaveErrorReset(current) == [val |-> None, context |-> None]

\* save_conversation_to_db leaving through its except block: what it returns
\* and the active context afterwards
OnSaveError(current) == [val |-> None, context |-> current]

\* save_conversation_to_db. g is the outcome of get_conversation, s of
\* save_conversation ("ok": the row is inserted and its id returned).
SaveConversationToDb(g, s) ==
    IF current_context = None \/ db_client = None
    THEN /\ ret' = Returned("save_conversation_to_db", NoArg, None, <<>>)
         /\ UNCHANGED <<config, current_context, now, uuids, store, files, log, kept, observed>>
    ELSE \E existing_conversation \in get_conversation(ctx.session_id, g) :
            /\ IF existing_conversation.raised
               THEN /\ ret' = Returned("save_conversation_to_db", NoArg,
                                       OnSaveError(current_context).val,
                                       <<"get_conversation">>)
                    /\ current_context' = OnSaveError(current_context).context
                    /\ UNCHANGED conversations
               ELSE IF existing_conversation.row # None
               THEN /\ ret' = Returned("save_conversation_to_db", NoArg,
                                       Some(existing_conversation.row[1].id),
                                       <<"get_conversation">>)
                    /\ UNCHANGED <<current_context, conversations>>
               ELSE IF s = "ok"
               THEN /\ conversations' =
                        Append(conversations,
                               ConversationRecord(RowId("conversation", Len(conversations) + 1),
                                                  ctx.session_id, ContextToDict(ctx)))
                    /\ ret' = Returned("save_conversation_to_db", NoArg,
                                       Some(RowId("conversation", Len(conversations) + 1)),
                                       <<"get_conversation", "save_conversation">>)
                    /\ UNCHANGED current_context
               ELSE IF s = "raise"
               THEN /\ ret' = Returned("save_conversation_to_db", NoArg,
                                       OnSaveError(current_context).val,
                                       <<"get_conversation", "save_conversation">>)
                    /\ current_context' = OnSaveError(current_context).context
                    /\ UNCHANGED conversations
               ELSE /\ ret' = Returned("save_conversation_to_db", NoArg, None,
                                       <<"get_conversation", "save_conversation">>)
                    /\ UNCHANGED <<current_context, conversations>>
            /\ UNCHANGED <<config, now, uuids, leads, files, log, kept, observed>>

\* load_conversation_from_db(session_id). g is the outcome of get_conversation.
LoadConversationFromDb(session_id, g) ==
    IF db_client = None
    THEN /\ ret' = Returned("load_conversation_from_db", session_id, FALSE, <<>>)
         /\ UNCHANGED <<config, current_context, now, uuids, store, files, log, kept, observed>>
    ELSE \E conversation_data \in get_conversation(session_id, g) :
            /\ IF conversation_data.raised \/ conversation_data.row = None
               THEN /\ ret' = Returned("load_conversation_from_db", session_id, FALSE,
                                       <<"get_conversation">>)
                    /\ UNCHANGED <<current_context, log, kept>>
               ELSE LET row == conversation_data.row[1]
                        after == AfterLoad(RowLoads(row), ContextFromRow(row, now),
                                           current_context)
                    IN  /\ current_context' = after
                        /\ ret' = Returned("load_conversation_from_db", session_id,
                                           RowLoads(row), <<"get_conversation", "parse">>)
                        /\ log' = IF RowLoads(row) THEN after[1].messages ELSE log
                        /\ kept' = IF RowLoads(row)
                                   THEN [i \in 1..Len(after[1].messages) |-> i]
                                   ELSE kept
            /\ UNCHANGED <<config, now, uuids, store, files, observed>>

\* save_context(filepath). io is the outcome of writing the file.
SaveContext(filepath, io) ==
    IF current_context = None
    THEN /\ ret' = Returned("save_context", filepath, FALSE, <<>>)
         /\ UNCHANGED <<config, current_context, now, uuids, store, files, log, kept, observed>>
    ELSE LET path == IF filepath = None THEN DefaultPath(ctx.session_id) ELSE filepath[1]
         IN  /\ IF io = "ok"
                THEN /\ files' = [p \in DOMAIN files \cup {path} |->
                                     IF p = path THEN JsonDumps(ContextToDict(ctx))
                                     ELSE files[p]]
                     /\ ret' = Returned("save_context", Some(path), TRUE, <<"write">>)
                ELSE /\ UNCHANGED files
                     /\ ret' = Returned("save_context", Some(path), FALSE, <<"write">>)
             /\ UNCHANGED <<config, current_context, now, uuids, store, log, kept, observed>>

\* load_context(filepath). io is the outcome of reading the file.
LoadContext(filepath, io) ==
    IF io # "ok" \/ filepath \notin DOMAIN files
    THEN /\ ret' = Returned("load_context", Some(filepath), FALSE, <<"read">>)
         /\ UNCHANGED <<config, current_context, now, uuids, store, files, log, kept, observed>>
    ELSE LET text == files[filepath]
             after == AfterLoad(FileLoads(text), ContextFromFile(text.value), current_context)
         IN  /\ current_context' = after
             /\ ret' = Returned("load_context", Some(filepath), FileLoads(text),
                                <<"read", "parse">>)
             /\ log' = IF FileLoads(text) THEN after[1].messages ELSE log
             /\ kept' = IF FileLoads(text)
                        THEN [i \in 1..Len(after[1].messages) |-> i]
                        ELSE kept
             /\ UNCHANGED <<config, now, uuids, store, files, observed>>

\* The clock moves on
Tick ==
    /\ now' = now + 1
    /\ UNCHANGED <<config, current_context, uuids, ret, store, files, log, kept, observed>>

\* ------------------------------------------------------------ the environment
Without(d, key) == [k \in DOMAIN d \ {key} |-> d[k]]

\* A snapshot text after somebody else edited it
Damaged(text, how) ==
    LET data == text.value
        last == Len(data.messages)
    IN  CASE how = "garbled" -> Garbled
          [] how = "bad_phase" -> JsonDumps([data EXCEPT !.current_phase = "bogus"])
          [] how = "no_session_id" -> JsonDumps(Without(data, "session_id"))
          [] how = "bad_kind" ->
                JsonDumps([data EXCEPT !.messages[last].message_type = "bogus"])
          [] how = "no_message_id" ->
                JsonDumps([data EXCEPT !.messages[last] = Without(@, "id")])

Damages == {"garbled", "bad_phase", "no_session_id", "bad_kind", "no_message_id"}

CanDamage(text, how) ==
    /\ FileLoads(text)
    /\ how \in {"bad_kind", "no_message_id"} => Len(text.value.messages) > 0

\* A snapshot file is edited outside the program
ForeignFileEdit(path, how) ==
    /\ path \in DOMAIN files
    /\ CanDamage(files[path], how)
    /\ files' = [files EXCEPT ![path] = Damaged(@, how)]
    /\ UNCHANGED <<config, current_context, now, uuids, ret, store, log, kept, observed>>

\* A row of the conversations table is edited by another client of the store
ForeignRowEdit(i, how) ==
    /\ i \in 1..Len(conversations)
    /\ "conversation_data" \in DOMAIN conversations[i]
    /\ CanDamage(conversations[i].conversation_data, how)
    /\ conversations' = [conversations EXCEPT ![i].conversation_data = Damaged(@, how)]
    /\ UNCHANGED <<config, current_context, now, uuids, ret, leads, files, log, kept, observed>>

\* The user-role turns the classifier read, the last (up to 6) user-role turns
\* of the conversation, and the phase it returned
LastUserTurns(msgs) ==
    LET users == SelectSeq(msgs, LAMBDA m : m.role = "user")
    IN  [i \in 1..Len(Suffix(users, PhaseWindow)) |-> Suffix(users, PhaseWindow)[i].content]

Observation(c, phase) ==
    [messages |-> Suffix(c.messages, PhaseWindow), users |-> LastUserTurns(c.messages),
     count |-> Len(c.messages), phase |-> phase]

\* history: remember the analysis that has just returned
Observe ==
    /\ ret.op = "analyze_conversation_phase"
    /\ current_context # None
    /\ observed' = Some(Observation(ctx, ret.val[1]))
    /\ UNCHANGED <<config, current_context, now, uuids, ret, store, files, log, kept>>

\* ------------------------------------------------------------- the behaviours
Constructed(w, db) ==
    /\ max_context_messages = w
    /\ db_client = db
    /\ current_context = None
    /\ conversations = <<>>
    /\ leads = <<>>
    /\ files = EmptyDict
    /\ now = 0
    /\ uuids = 0
    /\ ret = [op |-> "__init__", arg |-> NoArg, val |-> None, gateway |-> <<>>,
              prev |-> "__new__"]
    /\ log = <<>>
    /\ kept = <<>>
    /\ observed = None

\* Retention: any window size, turns added one after the other
RetentionContents == {<<"o","k">>, <<"h","o","l","a">>}

InitRetention == \E w \in 0..MaxW : Constructed(w, None)

NextRetention ==
    \/ /\ Interactions < MaxAdds
       /\ \E content \in RetentionContents :
              AddMessage("user", content, "USER_TEXT", EmptyDict)
    \/ /\ uuids < MaxStarts
       /\ StartNewConversation(None)

SpecRetention == InitRetention /\ [][NextRetention]_vars

\* The phase classifier over long conversations
TxtOk == <<"o","k">>
TxtAyuda == <<"a","y","u","d","a">>
TxtCosto == <<"c","o","s","t","o">>
TxtCostoTimeline == <<"c","o","s","t","o"," ","t","i","m","e","l","i","n","e">>

PhaseTurns ==
    { <<"user", TxtAyuda, "USER_TEXT">>,
      <<"user", TxtCosto, "USER_TEXT">>,
      <<"assistant", TxtCostoTimeline, "AGENT_RESPONSE">> }

InitPhase == Constructed(DefaultWindow, None)

NextPhase ==
    \/ /\ Interactions < MaxPhaseAdds
       /\ \E turn \in PhaseTurns : AddMessage(turn[1], turn[2], turn[3], EmptyDict)
    \/ AnalyzeConversationPhase
    \/ Observe

SpecPhase == InitPhase /\ [][NextPhase]_vars

\* The phase classifier on short conversations with a richer vocabulary
TxtHola == <<"H","o","l","a">>
TxtNecesitoAyuda == <<"n","e","c","e","s","i","t","o"," ","a","y","u","d","a">>
TxtCostoPero == <<"c","o","s","t","o"," ","p","e","r","o">>
TxtScenario1 ==
    <<"H","o","l","a",","," ","m","e"," ","l","l","a","m","o"," ","A","n","a"," ","y"," ",
      "s","o","y"," ","d","e"," ","A","c","m","e">>
TxtScenario2 ==
    <<"n","e","c","e","s","i","t","a","m","o","s"," ","a","y","u","d","a"," ","c","o","n"," ",
      "p","r","e","s","u","p","u","e","s","t","o">>

ScoreTurns ==
    { <<"user", content, "USER_TEXT">> :
          content \in {TxtOk, TxtHola, TxtNecesitoAyuda, TxtCostoPero,
                       TxtScenario1, TxtScenario2} }
    \cup { <<"assistant", TxtOk, "AGENT_RESPONSE">> }

InitScore == Constructed(DefaultWindow, None)

NextScore ==
    \/ /\ Interactions < MaxScoreAdds
       /\ \E turn \in ScoreTurns : AddMessage(turn[1], turn[2], turn[3], EmptyDict)
    \/ AnalyzeConversationPhase
    \/ /\ uuids < MaxStarts
       /\ StartNewConversation(None)

SpecScore == InitScore /\ [][NextScore]_vars

\* The store behind a gateway that answers without errors
Supabase == Some("SupabaseClient")

TxtAcme == <<"a","c","m","e">>
StoreTurns == { <<"user", TxtAyuda, "USER_TEXT">> }
StoreInfo == [company |-> Scalar(TxtAcme)]
StoreSessionIds == {SessionId(t) : t \in 0..MaxClock}

InitStore == Constructed(DefaultWindow, Supabase)

NextStore ==
    \/ /\ Interactions < MaxStoreAdds
       /\ \E turn \in StoreTurns : AddMessage(turn[1], turn[2], turn[3], EmptyDict)
    \/ AnalyzeConversationPhase
    \/ SaveConversationToDb("ok", "ok")
    \/ \E session_id \in StoreSessionIds : LoadConversationFromDb(session_id, "ok")
    \/ /\ uuids < MaxStarts
       /\ StartNewConversation(None)
    \/ /\ now < MaxClock
       /\ Tick

SpecStore == InitStore /\ [][NextStore]_vars

\* The file snapshot of conversations in which every kind of turn occurs at most
\* once, in any order
FileTurns ==
    { <<"user", TxtAyuda, "USER_TEXT">>,
      <<"user", TxtOk, "USER_AUDIO">>,
      <<"assistant", TxtOk, "AGENT_RESPONSE">>,
      <<"system", TxtOk, "SYSTEM_INFO">> }
Kinds(c) == {c.messages[i].message_type : i \in 1..Len(c.messages)}
KindsSoFar == IF current_context = None THEN {} ELSE Kinds(ctx)
PathA == <<"snapshot">>

InitFile == Constructed(DefaultWindow, None)

NextFile ==
    \/ \E turn \in FileTurns :
           /\ turn[3] \notin KindsSoFar
           /\ AddMessage(turn[1], turn[2], turn[3], EmptyDict)
    \/ /\ "LEAD_UPDATE" \notin KindsSoFar
       /\ UpdateLeadInfo(StoreInfo, "ok", "ok")
    \/ AnalyzeConversationPhase
    \/ SaveContext(Some(PathA), "ok")
    \/ LoadContext(PathA, "ok")

SpecFile == InitFile /\ [][NextFile]_vars

\* Loads that fail: a gateway that errs, files that cannot be read, snapshots
\* edited by somebody else
Outcomes == {"ok", "none", "raise"}
IoOutcomes == {"ok", "raise"}
FaultSessionIds == {SessionId(0), SessionId(1)}
FaultPaths == {DefaultPath(SessionId(0)), PathA}

InitFault == Constructed(DefaultWindow, Supabase)

NextFault ==
    \/ /\ Interactions < MaxFaultAdds
       /\ \E turn \in StoreTurns : AddMessage(turn[1], turn[2], turn[3], EmptyDict)
    \/ /\ Len(conversations) < MaxRows
       /\ \E g \in Outcomes, s \in Outcomes : SaveConversationToDb(g, s)
    \/ \E session_id \in FaultSessionIds, g \in Outcomes :
           LoadConversationFromDb(session_id, g)
    \/ \E io \in IoOutcomes : SaveContext(None, io)
    \/ \E filepath \in FaultPaths, io \in IoOutcomes : LoadContext(filepath, io)
    \/ \E filepath \in FaultPaths, how \in Damages : ForeignFileEdit(filepath, how)
    \/ \E i \in 1..MaxRows, how \in Damages : ForeignRowEdit(i, how)

SpecFault == InitFault /\ [][NextFault]_vars

\* Snapshots that lack one field of the context
MirroredFields ==
    {"session_id", "lead_id", "start_time", "last_activity", "current_phase",
     "messages", "summary", "lead_info", "total_interactions"}

\* A snapshot file loses one field outside the program
ForeignFileDrop(path, field) ==
    /\ path \in DOMAIN files
    /\ FileLoads(files[path])
    /\ files' = [files EXCEPT ![path] = JsonDumps(Without(@.value, field))]
    /\ UNCHANGED <<config, current_context, now, uuids, ret, store, log, kept, observed>>

\* A row of the conversations table loses one field of its snapshot
ForeignRowDrop(i, field) ==
    /\ i \in 1..Len(conversations)
    /\ FileLoads(conversations[i].conversation_data)
    /\ conversations' =
           [conversations EXCEPT ![i].conversation_data = JsonDumps(Without(@.value, field))]
    /\ UNCHANGED <<config, current_context, now, uuids, ret, leads, files, log, kept, observed>>

DropTurns == { <<"user", TxtAyuda, "USER_TEXT">> }
DropPath == DefaultPath(SessionId(0))

InitDrop == Constructed(DefaultWindow, Supabase)

NextDrop ==
    \/ /\ Interactions < MaxDropAdds
       /\ \E turn \in DropTurns : AddMessage(turn[1], turn[2], turn[3], EmptyDict)
    \/ /\ Interactions < MaxDropAdds
       /\ UpdateLeadInfo(StoreInfo, "none", "none")
    \/ SaveConversationToDb("ok", "ok")
    \/ SaveContext(None, "ok")
    \/ LoadConversationFromDb(SessionId(0), "ok")
    \/ LoadContext(DropPath, "ok")
    \/ \E field \in MirroredFields : ForeignFileDrop(DropPath, field)
    \/ \E field \in MirroredFields : ForeignRowDrop(1, field)

SpecDrop == InitDrop /\ [][NextDrop]_vars

\* A gateway that answers, fails by returning None, or raises, and a manager
\* built with or without one
TxtBeta == <<"b","e","t","a">>
LeadInfos ==
    { [company |-> Scalar(TxtAcme)],
      [company |-> Scalar(TxtBeta), personal |-> Dict([nombre |-> Scalar(TxtAcme)])],
      [personal |-> Dict([cargo |-> Scalar(TxtBeta)])] }

InitGateway == \E db \in {None, Supabase} : Constructed(DefaultWindow, db)

NextGateway ==
    \/ /\ Interactions < MaxGatewayAdds
       /\ \E turn \in StoreTurns : AddMessage(turn[1], turn[2], turn[3], EmptyDict)
    \/ /\ Interactions < MaxGatewayAdds
       /\ \E new_info \in LeadInfos, g \in Outcomes, u \in Outcomes :
              UpdateLeadInfo(new_info, g, u)
    \/ /\ Len(conversations) < MaxRows
       /\ \E g \in Outcomes, s \in Outcomes : SaveConversationToDb(g, s)

SpecGateway == InitGateway /\ [][NextGateway]_vars

\* ---------------------------------------------------- nested lead profiles
\* The dicts update_lead_info is called with: every map from a subset of
\* MergeKeys to a scalar or to a dict of scalars over a subset of MergeKeys
MergeKeys == {"a", "b"}
MergeScalars == {1, 2}

NestedMaps ==
    LET MapsOver(values) == UNION {[keyset -> values] : keyset \in SUBSET MergeKeys}
        scalars == {Scalar(x) : x \in MergeScalars}
    IN  MapsOver(scalars \cup {Dict(inner) : inner \in MapsOver(scalars)})

InitMerge == Constructed(DefaultWindow, None)

NextMerge ==
    \/ /\ Interactions < MaxMergeAdds
       /\ \E turn \in StoreTurns : AddMessage(turn[1], turn[2], turn[3], EmptyDict)
    \/ /\ Interactions < MaxMergeAdds
       /\ \E new_info \in NestedMaps : UpdateLeadInfo(new_info, "ok", "ok")

SpecMerge == InitMerge /\ [][NextMerge]_vars


\* ------------------------------------------------- sessions started over
\* The lead_id arguments of start_new_conversation: none, the empty string, an
\* identifier
StartLeadIds == {None, Some(<<>>), Some(TxtAcme)}

TxtNecesitoPero ==
    <<"N","e","c","e","s","i","t","o"," ","a","y","u","d","a","."," ",
      "P","e","r","o"," ","c","o","s","t","o">>

SessionTurns ==
    { <<"user", TxtNecesitoPero, "USER_TEXT">>,
      <<"assistant", TxtCosto, "AGENT_RESPONSE">> }

InitSession == Constructed(DefaultWindow, Supabase)

NextSession ==
    \/ /\ Interactions < MaxSessionAdds
       /\ \E turn \in SessionTurns : AddMessage(turn[1], turn[2], turn[3], EmptyDict)
    \/ AnalyzeConversationPhase
    \/ UpdateConversationSummary
    \/ /\ Interactions < MaxSessionAdds
       /\ Len(leads) < MaxRows
       /\ UpdateLeadInfo(StoreInfo, "ok", "ok")
    \/ \E lead_id \in StartLeadIds :
          /\ Given(lead_id) \/ uuids < MaxStarts
          /\ StartNewConversation(lead_id)

SpecSession == InitSession /\ [][NextSession]_vars

\* ------------------------------------------------- the projection for the AI
\* The caller writes into the dict it was handed: sets a key of lead_info,
\* sets a list of the summary, or empties recent_messages. An object that is
\* the context's own changes in the context too.
CallerWrites(part) ==
    /\ current_context # None
    /\ ret.op = "get_conversation_context_for_ai"
    /\ LET lead_info == [key \in DOMAIN ret.val.context_summary.lead_info \cup {"company"} |->
                            IF key = "company" THEN Scalar(TxtBeta)
                            ELSE ret.val.context_summary.lead_info[key]]
           summary == [ret.val.context_summary.summary EXCEPT !.next_actions = <<TxtBeta>>]
       IN  CASE part = "lead_info" ->
                  /\ ret' = [ret EXCEPT !.val.context_summary.lead_info = lead_info]
                  /\ current_context' =
                         IF part \in ProjectionShares
                         THEN Some([ctx EXCEPT !.lead_info = lead_info])
                         ELSE current_context
             [] part = "summary" ->
                  /\ ret' = [ret EXCEPT !.val.context_summary.summary = summary]
                  /\ current_context' =
                         IF part \in ProjectionShares
                         THEN Some([ctx EXCEPT !.summary = summary])
                         ELSE current_context
             [] part = "recent_messages" ->
                  /\ ret' = [ret EXCEPT !.val.recent_messages = <<>>]
                  /\ current_context' =
                         IF part \in ProjectionShares
                         THEN Some([ctx EXCEPT !.messages = <<>>])
                         ELSE current_context
    /\ UNCHANGED <<config, now, uuids, store, files, log, kept, observed>>

ProjectionTurns ==
    { <<"user", TxtAyuda, "USER_TEXT">>,
      <<"user", TxtAyuda, "USER_AUDIO">>,
      <<"assistant", TxtCosto, "AGENT_RESPONSE">>,
      <<"system", TxtOk, "SYSTEM_INFO">> }

InitProjection == \E w \in 0..MaxProjectionW : Constructed(w, None)

NextProjection ==
    \/ /\ Interactions < MaxProjectionAdds
       /\ \E turn \in ProjectionTurns : AddMessage(turn[1], turn[2], turn[3], EmptyDict)
    \/ /\ Interactions < MaxProjectionAdds
       /\ UpdateLeadInfo(StoreInfo, "none", "none")
    \/ GetConversationContextForAi
    \/ \E part \in {"lead_info", "summary", "recent_messages"} : CallerWrites(part)

SpecProjection == InitProjection /\ [][NextProjection]_vars

\* ------------------------------------------------ summaries as time passes
NextSummary ==
    \/ /\ Interactions < MaxSummaryAdds
       /\ \E turn \in SessionTurns : AddMessage(turn[1], turn[2], turn[3], EmptyDict)
    \/ UpdateConversationSummary
    \/ /\ now < MaxClock
       /\ Tick

SpecSummary == InitPhase /\ [][NextSummary]_vars

\* ================================================================== claims
W == max_context_messages
Active == current_context # None
N == Len(log)

\* C1 as stated, on the windows W >= 3, where min(N, 3 + W) is 3 + W for every
\* N > 2W: after N > 2W add_message calls into a fresh conversation
\* len(messages) = min(N, 3 + W).
C1_RetentionLength_AsStated ==
    (Active /\ W >= 3 /\ N > 2 * W) => Len(ctx.messages) = Min(N, 3 + W)

\* C1 amended: for W >= 1 and N > 2W the length is 3 + W plus the number of calls
\* since the last trim, 3 + W + ((N - 2W - 1) mod max(1, W - 2)): it is 3 + W
\* right after a call that trims and climbs back to 2W before the next trim.
\* For W = 0 (messages[-0:] is the whole list) the length is 4N - 2.
C1_RetentionLength ==
    (Active /\ N > 2 * W) =>
        IF W = 0
        THEN Len(ctx.messages) = 4 * N - 2
        ELSE /\ Len(ctx.messages) = 3 + W + ((N - 2 * W - 1) % Max(1, W - 2))
             /\ Len(ctx.messages) >= 3 + W
             /\ Len(ctx.messages) <= Max(2 * W, 3 + W)

\* C1 witness: a window of at least 4, past the first trim, with the list grown
\* again beyond 3 + W.
C1_Witness ==
    Active /\ W >= 4 /\ N > 2 * W + 1 /\ Len(ctx.messages) > 3 + W

\* The anchors of the retention law: the first 3 retained turns are the first
\* 3 ever added and the last W retained turns the W most recent, each as created.
Anchors ==
    /\ Len(kept) = Len(ctx.messages)
    /\ \A i \in 1..Len(kept) : ctx.messages[i] = log[kept[i]]
    /\ \A i \in 1..Min(3, N) : i <= Len(kept) /\ kept[i] = i
    /\ \A j \in 1..W : /\ Len(kept) - W + j >= 1
                       /\ kept[Len(kept) - W + j] = N - W + j

scores == PhaseScores(ConversationText(ctx.messages))
Analyzed == ret.op = "analyze_conversation_phase"
PhaseIndex(p) == CHOOSE i \in 1..Len(ConversationPhase) : ConversationPhase[i] = p

\* C3: a call of analyze_conversation_phase with at least 2 messages in which
\* every phase scores 0 leaves current_phase as it was and returns it.
C3_ZeroScoresKeepPhase ==
    [][ ( /\ Active
          /\ Len(ctx.messages) >= 2
          /\ \A i \in 1..Len(scores) : scores[i] = 0
          /\ AnalyzeConversationPhase )
        => ( /\ current_context'[1].current_phase = ctx.current_phase
             /\ ret'.val = Some(ctx.current_phase) ) ]_vars

\* The contents of the user-role turns among the last 6 messages
WindowUserTurns(msgs) ==
    LET window == SelectSeq(Suffix(msgs, PhaseWindow), LAMBDA m : m.role = "user")
    IN  [i \in 1..Len(window) |-> window[i].content]

\* Some keyword of some phase occurs in the text scored for these messages
Scored(msgs) ==
    \E i \in 1..Len(ConversationPhase) : PhaseScores(ConversationText(msgs))[i] > 0

ScenarioFirst ==
    /\ Active /\ Analyzed
    /\ Len(ctx.messages) = 1
    /\ ctx.messages[1].role = "user" /\ ctx.messages[1].content = TxtScenario1

ScenarioSecond ==
    /\ Active /\ Analyzed
    /\ Len(ctx.messages) = 2
    /\ ctx.messages[1].role = "user" /\ ctx.messages[1].content = TxtScenario1
    /\ ctx.messages[2].role = "user" /\ ctx.messages[2].content = TxtScenario2

C6_MaxScoreFirstWins ==
    ( /\ Active /\ Analyzed /\ Len(ctx.messages) >= 2
      /\ \E i \in 1..Len(scores) : scores[i] > 0 )
    => \E i \in 1..Len(scores) :
          /\ ret.val = Some(ConversationPhase[i])
          /\ ctx.current_phase = ConversationPhase[i]
          /\ \A j \in 1..Len(scores) : scores[j] <= scores[i]
          /\ \A j \in 1..(i - 1) : scores[j] < scores[i]

\* C6 witness: qualification and objection_handling tie at the largest count
\* and qualification is returned.
C6_Witness ==
    /\ Active /\ Analyzed /\ Len(ctx.messages) >= 2
    /\ scores[PhaseIndex("QUALIFICATION")] = scores[PhaseIndex("OBJECTION_HANDLING")]
    /\ scores[PhaseIndex("QUALIFICATION")] > 0
    /\ \A j \in 1..Len(scores) : scores[j] <= scores[PhaseIndex("QUALIFICATION")]
    /\ ret.val = Some("QUALIFICATION")

\* ---------------------------------------------------------------- the store
SessionRows(rows, session_id) == {i \in 1..Len(rows) : rows[i].session_id = session_id}

\* C7: two consecutive save_conversation_to_db calls on the same active context,
\* the gateway answering without errors, return the same store id, and the
\* store then holds exactly one conversation record of that session_id.
C7_SaveIdempotent ==
    [][ ( /\ Active
          /\ ret.op = "save_conversation_to_db"
          /\ SaveConversationToDb("ok", "ok") )
        => ( /\ ret.val # None
             /\ ret'.val = ret.val
             /\ Cardinality(SessionRows(conversations', ctx.session_id)) = 1 ) ]_vars

\* The second of two consecutive saves has returned, on a conversation with
\* turns, into a store that also holds another session
C7_Witness ==
    /\ Active
    /\ ret.op = "save_conversation_to_db"
    /\ ret.prev = "save_conversation_to_db"
    /\ ret.val # None
    /\ Len(ctx.messages) > 0
    /\ Len(conversations) = 2
    /\ Cardinality(SessionRows(conversations, ctx.session_id)) = 1

\* C8: whenever save_conversation_to_db has returned a store id for the active
\* context, a following load_conversation_from_db(ctx.session_id) returns true
\* and makes the active context equal, in every field, to the context as it was
\* at that save.
C8_StoreRoundTrip ==
    [][ ( /\ Active
          /\ ret.op = "save_conversation_to_db"
          /\ ret.val # None
          /\ LoadConversationFromDb(ctx.session_id, "ok") )
        => ( /\ ret'.val = TRUE
             /\ current_context' = current_context ) ]_vars

\* ----------------------------------------------------------- the file snapshot
\* C9: for an active context with at least one turn of each of the five kinds,
\* save_context(path) followed by load_context(path) returns true and yields an
\* active context equal in every field, every turn's kind being the same
\* MessageType member.
C9_FileRoundTrip ==
    [][ ( /\ Active
          /\ Kinds(ctx) = MessageType
          /\ ret.op = "save_context"
          /\ ret.val = TRUE
          /\ LoadContext(ret.arg[1], "ok") )
        => ( /\ ret'.val = TRUE
             /\ current_context' = current_context ) ]_vars

\* A context with the five kinds, a phase other than the initial one and a
\* non-empty lead profile has been saved and then loaded
C9_Witness ==
    /\ Active
    /\ ret.op = "load_context"
    /\ ret.prev = "save_context"
    /\ ret.val = TRUE
    /\ Kinds(ctx) = MessageType
    /\ ctx.current_phase # "INTRODUCTION"
    /\ ctx.lead_info # EmptyDict

\* ------------------------------------------------------------- failing loads
LoadStep ==
    \/ \E filepath \in FaultPaths, io \in IoOutcomes : LoadContext(filepath, io)
    \/ \E session_id \in FaultSessionIds, g \in Outcomes :
           LoadConversationFromDb(session_id, g)

\* C10: whenever load_context or load_conversation_from_db returns false, the
\* active context after the call is the active context before it, in every
\* field.
C10_LoadAllOrNothing ==
    [][ (LoadStep /\ ret'.val = FALSE) => current_context' = current_context ]_vars

\* A load has failed while rebuilding the context from a snapshot it had read,
\* with a conversation active
C10_Witness ==
    /\ Active
    /\ Len(ctx.messages) > 0
    /\ ret.op \in {"load_context", "load_conversation_from_db"}
    /\ ret.val = FALSE
    /\ Len(ret.gateway) = 2
    /\ ret.gateway[2] = "parse"

\* ------------------------------------------------------ snapshots lacking a field
\* The fields of the context a snapshot text lacks
Lacking(text) == MirroredFields \ DOMAIN text.value

FileLoadStep == LoadContext(DropPath, "ok")
RowLoadStep ==
    /\ Len(conversations) > 0
    /\ LoadConversationFromDb(conversations[1].session_id, "ok")

\* C11 as stated: loading a snapshot that lacks one of the nine mirrored fields
\* fails, from the file and from the store alike, and installs nothing.
C11_MissingFieldFails_AsStated ==
    [][ ( \/ /\ FileLoadStep
             /\ DropPath \in DOMAIN files
             /\ files[DropPath].json
             /\ Cardinality(Lacking(files[DropPath])) = 1
          \/ /\ RowLoadStep
             /\ Len(conversations) > 0
             /\ conversations[1].conversation_data.json
             /\ Cardinality(Lacking(conversations[1].conversation_data)) = 1 )
        => ( /\ ret'.val = FALSE
             /\ current_context' = current_context ) ]_vars

\* The fields load_conversation_from_db reads with a default
DefaultedFields == {"messages", "summary", "lead_info", "total_interactions"}

\* C11 amended: load_context fails on a snapshot lacking any one of the nine
\* fields. load_conversation_from_db fails when session_id, lead_id,
\* start_time, last_activity or current_phase is lacking; when messages,
\* summary, lead_info or total_interactions is lacking it returns true and
\* installs the snapshot's context with that field at its default (no
\* messages, an empty summary dated at the load, an empty lead_info, 0).
C11_MissingFieldFails ==
    [][ /\ ( /\ FileLoadStep
             /\ DropPath \in DOMAIN files
             /\ files[DropPath].json
             /\ Cardinality(Lacking(files[DropPath])) = 1 )
           => ( /\ ret'.val = FALSE
                /\ current_context' = current_context )
        /\ ( /\ RowLoadStep
             /\ Len(conversations) > 0
             /\ conversations[1].conversation_data.json
             /\ Cardinality(Lacking(conversations[1].conversation_data)) = 1 )
           => LET data == conversations[1].conversation_data.value
                  field == CHOOSE f \in MirroredFields : f \notin DOMAIN data
              IN  IF field \notin DefaultedFields
                  THEN /\ ret'.val = FALSE
                       /\ current_context' = current_context
                  ELSE /\ ret'.val = TRUE
                       /\ current_context' # None
                       /\ current_context'[1].session_id = data.session_id
                       /\ current_context'[1].current_phase = PhaseOf(data.current_phase)
                       /\ field = "messages" => current_context'[1].messages = <<>>
                       /\ field = "summary" =>
                              current_context'[1].summary = ConversationSummary(now)
                       /\ field = "lead_info" => current_context'[1].lead_info = EmptyDict
                       /\ field = "total_interactions" =>
                              current_context'[1].total_interactions = 0
                       /\ field # "messages" =>
                              Len(current_context'[1].messages) = Len(data.messages)
      ]_vars

\* A store record without its messages has been loaded over a conversation that
\* had turns: the load returned true and the active context has none
C11_Witness ==
    /\ Active
    /\ ret.op = "load_conversation_from_db"
    /\ ret.val = TRUE
    /\ Len(conversations) > 0
    /\ Lacking(conversations[1].conversation_data) = {"messages"}
    /\ ctx.messages = <<>>
    /\ ctx.total_interactions > 0

\* ------------------------------------------------------- a gateway that fails
\* C12: when get_conversation or save_conversation raises during
\* save_conversation_to_db, the call returns None and the active context is as
\* it was, in every field; without a gateway the call returns None, calls
\* nothing and leaves the context as it was.
C12_SaveFailureContained ==
    [][ /\ \A g \in Outcomes, s \in Outcomes :
              ( /\ Active
                /\ db_client # None
                /\ SaveConversationToDb(g, s)
                /\ \/ g = "raise"
                   \/ s = "raise" /\ Len(ret'.gateway) = 2 )
              => ( /\ ret'.op = "save_conversation_to_db"
                   /\ ret'.val = None
                   /\ current_context' = current_context
                   /\ conversations' = conversations )
        /\ \A g \in Outcomes, s \in Outcomes :
              (db_client = None /\ SaveConversationToDb(g, s))
              => ( /\ ret'.val = None
                   /\ ret'.gateway = <<>>
                   /\ current_context' = current_context
                   /\ conversations' = conversations )
      ]_vars

\* get_conversation raised (the only way a save stops after one gateway call)
\* during a save of a conversation with turns, and None was returned
C12_Witness ==
    /\ Active
    /\ db_client # None
    /\ Len(ctx.messages) > 1
    /\ ret.op = "save_conversation_to_db"
    /\ ret.val = None
    /\ ret.gateway = <<"get_conversation">>
    /\ conversations = <<>>

\* C13: when get_lead, create_lead or update_lead raises during
\* update_lead_info(partial), the call still returns normally, lead_id is
\* unchanged, and the context afterwards is the one a manager without a gateway
\* would have: partial deep-merged into lead_info and one lead_update turn
\* appended.
WithoutGateway(new_info) ==
    add_message([ctx EXCEPT !.lead_info = deep_update(ctx.lead_info, new_info)],
                "system", LeadUpdateContent(new_info), "LEAD_UPDATE",
                [updated_fields |-> UpdatedFields(new_info)], now, max_context_messages)

LeadCallRaised(g, u) == g = "raise" \/ (u = "raise" /\ Len(ret'.gateway) = 2)

C13_LeadFailureContained ==
    [][ \A new_info \in LeadInfos, g \in Outcomes, u \in Outcomes :
          ( /\ Active
            /\ db_client # None
            /\ UpdateLeadInfo(new_info, g, u)
            /\ LeadCallRaised(g, u) )
          => /\ ret'.op = "update_lead_info"
             /\ ret'.val = None
             /\ current_context' # None
             /\ current_context'[1].lead_id = ctx.lead_id
             /\ current_context'[1] = WithoutGateway(new_info)
             /\ current_context'[1].lead_info = deep_update(ctx.lead_info, new_info)
             /\ Len(log') = Len(log) + 1
             /\ log'[Len(log')].role = "system"
             /\ log'[Len(log')].message_type = "LEAD_UPDATE" ]_vars

\* get_lead raised (the only way the upsert stops after one call) although the
\* lead is in the store, and the profile was still merged and the turn appended
C13_Witness ==
    /\ Active
    /\ db_client # None
    /\ ret.op = "update_lead_info"
    /\ ret.gateway = <<"get_lead">>
    /\ Len(leads) = 1
    /\ leads[1].id = ctx.lead_id
    /\ leads[1].raw_lead_data # ret.arg
    /\ "personal" \in DOMAIN ctx.lead_info
    /\ "cargo" \in DOMAIN ctx.lead_info["personal"].v
    /\ ctx.messages[Len(ctx.messages)].message_type = "LEAD_UPDATE"

\* C14 as stated: with a gateway and an active context, every update_lead_info
\* call makes exactly one create_lead or update_lead call: update_lead when
\* get_lead finds a record, create_lead otherwise; and lead_id is the
\* identifier create_lead returned.
LeadFound(g) == g = "ok" /\ \E i \in 1..Len(leads) : leads[i].id = ctx.lead_id

Count(calls, name) == Cardinality({i \in 1..Len(calls) : calls[i] = name})

UpsertAsSpecified(new_info, g, u) ==
    /\ Count(ret'.gateway, "create_lead") + Count(ret'.gateway, "update_lead") = 1
    /\ Count(ret'.gateway, "update_lead") = 1 <=> LeadFound(g)
    /\ (LeadFound(g) /\ u = "ok")
          => \E i \in 1..Len(leads) :
                /\ leads[i].id = ctx.lead_id
                /\ leads'[i].raw_lead_data = new_info
                /\ Len(leads') = Len(leads)
    /\ (~LeadFound(g) /\ u = "ok")
          => /\ Len(leads') = Len(leads) + 1
             /\ leads'[Len(leads')].raw_lead_data = new_info
             /\ current_context'[1].lead_id = leads'[Len(leads')].id
    /\ (LeadFound(g) \/ u # "ok") => current_context'[1].lead_id = ctx.lead_id

C14_Upsert_AsStated ==
    [][ \A new_info \in LeadInfos, g \in Outcomes, u \in Outcomes :
          (Active /\ db_client # None /\ UpdateLeadInfo(new_info, g, u))
          => UpsertAsSpecified(new_info, g, u) ]_vars

\* C14: the same, for the calls in which get_lead returns (a record or
\* nothing); when get_lead raises, neither create_lead nor update_lead is
\* called and lead_id stays.
C14_Upsert ==
    [][ \A new_info \in LeadInfos, g \in Outcomes, u \in Outcomes :
          (Active /\ db_client # None /\ UpdateLeadInfo(new_info, g, u))
          => IF g = "raise"
             THEN /\ ret'.gateway = <<"get_lead">>
                  /\ leads' = leads
                  /\ current_context'[1].lead_id = ctx.lead_id
             ELSE UpsertAsSpecified(new_info, g, u) ]_vars

\* A lead created by an earlier call, its identifier adopted, was found and
\* updated by this one
C14_Witness ==
    /\ Active
    /\ db_client # None
    /\ ret.op = "update_lead_info"
    /\ ret.gateway = <<"get_lead", "update_lead">>
    /\ Len(leads) = 1
    /\ ctx.lead_id = leads[1].id
    /\ leads[1].raw_lead_data = ret.arg
    /\ Len(ctx.messages) = 3
    /\ ctx.messages[2].message_type = "LEAD_UPDATE"
    /\ ctx.messages[3].message_type = "LEAD_UPDATE"
    /\ ctx.messages[2].metadata # ctx.messages[3].metadata

\* C15 as stated: update_lead_info(partial) on an active context appends
\* exactly one turn, of role system and kind lead_update, and the turn records
\* exactly the top-level keys of lead_info whose value the merge changed.
ChangedKeys(before, after) ==
    {k \in DOMAIN after : k \notin DOMAIN before \/ before[k] # after[k]}

Elements(seq) == {seq[i] : i \in 1..Len(seq)}

OneLeadUpdateTurn ==
    /\ Len(log') = Len(log) + 1
    /\ SubSeq(log', 1, Len(log)) = log
    /\ Len(current_context'[1].messages) = Len(ctx.messages) + 1
    /\ current_context'[1].messages[Len(ctx.messages) + 1] = log'[Len(log')]
    /\ log'[Len(log')].role = "system"
    /\ log'[Len(log')].message_type = "LEAD_UPDATE"

C15_RecordsChangedKeys_AsStated ==
    [][ \A new_info \in LeadInfos, g \in Outcomes, u \in Outcomes :
          (Active /\ UpdateLeadInfo(new_info, g, u))
          => /\ OneLeadUpdateTurn
             /\ Elements(log'[Len(log')].metadata.updated_fields)
                  = ChangedKeys(ctx.lead_info, current_context'[1].lead_info) ]_vars

\* C15: the turn records the top-level keys of partial, each once, whether or
\* not the merge changed their value; every key the merge changed is among them.
C15_RecordsChangedKeys ==
    [][ \A new_info \in LeadInfos, g \in Outcomes, u \in Outcomes :
          (Active /\ UpdateLeadInfo(new_info, g, u))
          => /\ OneLeadUpdateTurn
             /\ Elements(log'[Len(log')].metadata.updated_fields) = DOMAIN new_info
             /\ Len(log'[Len(log')].metadata.updated_fields) = Cardinality(DOMAIN new_info)
             /\ ChangedKeys(ctx.lead_info, current_context'[1].lead_info)
                  \subseteq DOMAIN new_info ]_vars

\* The same partial was applied twice: the second turn records a key although
\* the merge changed nothing
C15_Witness ==
    /\ Active
    /\ ret.op = "update_lead_info"
    /\ ret.prev = "update_lead_info"
    /\ Len(ctx.messages) = 3
    /\ ctx.messages[3].message_type = "LEAD_UPDATE"
    /\ ctx.messages[2].metadata = ctx.messages[3].metadata
    /\ ctx.messages[3].metadata.updated_fields = <<"company">>
    /\ ctx.lead_info = ret.arg

\* C16: for every nested map base and update, _deep_update yields the map that
\* has, for each key of update, the recursive merge when both values are
\* mappings and update's value otherwise (mapping over scalar and scalar over
\* mapping included), and for each key of base absent from update the value of
\* base; and the two merges the specification gives as examples come out as
\* written there.
RECURSIVE MergedAsSpecified(_, _, _)
MergedAsSpecified(base, update, result) ==
    /\ DOMAIN result = DOMAIN base \cup DOMAIN update
    /\ \A key \in DOMAIN update :
          IF key \in DOMAIN base /\ base[key].t = "dict" /\ update[key].t = "dict"
          THEN /\ result[key].t = "dict"
               /\ MergedAsSpecified(base[key].v, update[key].v, result[key].v)
          ELSE result[key] = update[key]
    /\ \A key \in DOMAIN base \ DOMAIN update : result[key] = base[key]

MergeExamples ==
    /\ deep_update([a |-> Dict([x |-> Scalar(1), y |-> Scalar(2)])],
                   [a |-> Dict([y |-> Scalar(3), z |-> Scalar(4)])])
         = [a |-> Dict([x |-> Scalar(1), y |-> Scalar(3), z |-> Scalar(4)])]
    /\ deep_update([a |-> Scalar(1)], [a |-> Dict([b |-> Scalar(2)])])
         = [a |-> Dict([b |-> Scalar(2)])]

C16_DeepMerge ==
    [][ /\ MergeExamples
        /\ ( /\ Active
             /\ ret'.op = "update_lead_info"
             /\ ret'.arg \in NestedMaps
             /\ UpdateLeadInfo(ret'.arg, "ok", "ok") )
           => /\ current_context'[1].lead_info = deep_update(ctx.lead_info, ret'.arg)
              /\ MergedAsSpecified(ctx.lead_info, ret'.arg,
                                   current_context'[1].lead_info) ]_vars

\* A second update went one level down: a's b was replaced, a's a kept, and
\* the mapping under b gave way to a scalar
C16_Witness ==
    /\ Active
    /\ ret.op = "update_lead_info"
    /\ ret.prev = "update_lead_info"
    /\ ret.arg = [a |-> Dict([b |-> Scalar(2)]), b |-> Scalar(1)]
    /\ ctx.lead_info = [a |-> Dict([a |-> Scalar(1), b |-> Scalar(2)]), b |-> Scalar(1)]
    /\ ctx.messages[2].metadata.updated_fields # <<>>

\* C17: no two turns ever created in one conversation, and in particular no two
\* retained turns, have the same id, whether or not the millisecond clock
\* advances between the calls and whether or not retention has trimmed.
DistinctIds(turns) ==
    \A i \in 1..Len(turns) : \A j \in 1..Len(turns) :
        i # j => turns[i].id # turns[j].id

\* Stated for windows of at least two turns, where retention keeps no turn
\* twice, so that equal ids are ids of different turns.
C17_TurnIdsUnique ==
    (Active /\ max_context_messages >= 2)
    => DistinctIds(log) /\ DistinctIds(ctx.messages)

\* C18: a start_new_conversation call returns a session id that no earlier
\* conversation has: neither the conversation it replaces nor any conversation
\* the store holds a record of, whether or not the millisecond clock advanced
\* in between; so a new conversation never maps to the record of another.
C18_SessionIdsUnique ==
    [][ StartNewConversation(None)
        => /\ Active => current_context'[1].session_id # ctx.session_id
           /\ \A i \in 1..Len(conversations) :
                 conversations[i].session_id # current_context'[1].session_id ]_vars

\* C19 as stated: start_new_conversation(lead_id?) leaves an active context
\* with phase introduction, no messages, empty lead_info, empty summary lists
\* and total_interactions 0, whose lead_id is the argument when one is given;
\* it replaces the context there was and makes no gateway call.
FreshContext(c) ==
    /\ c.current_phase = "INTRODUCTION"
    /\ c.messages = <<>>
    /\ c.lead_info = EmptyDict
    /\ c.summary.key_points = <<>>
    /\ c.summary.mentioned_needs = <<>>
    /\ c.summary.objections_raised = <<>>
    /\ c.summary.interests_shown = <<>>
    /\ c.summary.next_actions = <<>>
    /\ c.total_interactions = 0

StartsFresh ==
    /\ current_context' # None
    /\ FreshContext(current_context'[1])
    /\ ret'.op = "start_new_conversation"
    /\ ret'.val = Some(current_context'[1].session_id)
    /\ ret'.gateway = <<>>
    /\ store' = store

NothingChanged ==
    UNCHANGED <<config, current_context, store, files, now, uuids, log, kept>>

C20_BelowThresholdNoOp ==
    [][ /\ ( /\ AnalyzeConversationPhase
             /\ ~Active \/ Len(ctx.messages) < 2 )
           => /\ ret'.op = "analyze_conversation_phase"
              /\ ret'.val = Some("INTRODUCTION")
              /\ NothingChanged
        /\ ( /\ UpdateConversationSummary
             /\ ~Active \/ Len(ctx.messages) < 3 )
           => /\ ret'.op = "update_conversation_summary"
              /\ ret'.val = None
              /\ NothingChanged ]_vars

\* After two turns, one of them a user turn that names a need, the phase was
\* analysed (and left introduction) while the summary call, one message short,
\* left every list empty
C20_Witness ==
    /\ Active
    /\ ret.op = "update_conversation_summary"
    /\ ret.prev = "analyze_conversation_phase"
    /\ Len(ctx.messages) = 2
    /\ \E i \in 1..2 : ctx.messages[i].role = "user"
                        /\ Contains(need_keywords[1], Lower(ctx.messages[i].content))
    /\ ctx.current_phase # "INTRODUCTION"
    /\ ctx.summary.mentioned_needs = <<>>
    /\ ctx.summary.objections_raised = <<>>

\* C21: an update_conversation_summary call that directly follows another one
\* leaves mentioned_needs and objections_raised as the first call left them,
\* same elements in the same order.
C21_SummaryIdempotent ==
    [][ ( /\ ret.op = "update_conversation_summary"
          /\ Active
          /\ UpdateConversationSummary )
        => /\ current_context'[1].summary.mentioned_needs = ctx.summary.mentioned_needs
           /\ current_context'[1].summary.objections_raised
                = ctx.summary.objections_raised ]_vars

\* Two calls in a row on three user turns that name a need and an objection:
\* both lists hold two fragments
C21_Witness ==
    /\ Active
    /\ ret.op = "update_conversation_summary"
    /\ ret.prev = "update_conversation_summary"
    /\ Len(ctx.messages) = 3
    /\ Len(ctx.summary.mentioned_needs) = 2
    /\ Len(ctx.summary.objections_raised) = 2

\* C22: within a conversation, across add_message, update_conversation_summary,
\* analyze_conversation_phase and update_lead_info calls, mentioned_needs and
\* objections_raised never hold a fragment twice, and each list after a call
\* starts with the list before the call: fragments are appended only.
NoFragmentTwice(fragments) ==
    \A i \in 1..Len(fragments) : \A j \in 1..Len(fragments) :
        i # j => fragments[i] # fragments[j]

IsPrefix(before, after) ==
    Len(before) <= Len(after) /\ SubSeq(after, 1, Len(before)) = before

C23_ProjectionIsolated ==
    [][ \A part \in {"lead_info", "summary", "recent_messages"} :
          CallerWrites(part) => current_context' = current_context ]_vars

\* C24 as stated: recent_messages holds, in arrival order, the turns of kind
\* user_text, user_audio or agent_response among the last W retained turns, so
\* at most W entries and never a system_info or lead_update turn, for every
\* window size W.
ShownAmong(window) ==
    LET wanted == {i \in window : ctx.messages[i].message_type
                                    \in {"USER_TEXT", "USER_AUDIO", "AGENT_RESPONSE"}}
        recent == ret'.val.recent_messages
    IN  /\ Len(recent) = Cardinality(wanted)
        /\ \A i \in wanted :
              LET k == Cardinality({j \in wanted : j <= i})
              IN  recent[k] = [role |-> ctx.messages[i].role,
                               content |-> ctx.messages[i].content,
                               timestamp |-> ctx.messages[i].timestamp]

LastRetained(n) == {i \in 1..Len(ctx.messages) : i > Len(ctx.messages) - n}

C24_ProjectionContent_AsStated ==
    [][ (Active /\ GetConversationContextForAi)
        => /\ Len(ret'.val.recent_messages) <= max_context_messages
           /\ ShownAmong(LastRetained(max_context_messages)) ]_vars

\* C24: the same for every window size W >= 1; with W = 0 recent_messages
\* holds every retained turn of the three kinds.
C24_ProjectionContent ==
    [][ (Active /\ GetConversationContextForAi)
        => IF max_context_messages >= 1
           THEN /\ Len(ret'.val.recent_messages) <= max_context_messages
                /\ ShownAmong(LastRetained(max_context_messages))
           ELSE ShownAmong(LastRetained(Len(ctx.messages))) ]_vars

\* With a window of 2, the last two retained turns are an audio turn and a
\* lead update: one entry is shown
C24_Witness ==
    /\ Active
    /\ ret.op = "get_conversation_context_for_ai"
    /\ max_context_messages = 2
    /\ Len(ctx.messages) >= 3
    /\ ctx.messages[Len(ctx.messages)].message_type = "LEAD_UPDATE"
    /\ ctx.messages[Len(ctx.messages) - 1].message_type = "USER_AUDIO"
    /\ Len(ret.val.recent_messages) = 1
    /\ ret.val.recent_messages[1].role = "user"

\* C25: for every window size W >= 1, whenever a call has returned, messages
\* holds at most max(2W, W + 3) turns.
C25_MemoryBound ==
    (Active /\ max_context_messages >= 1)
    => Len(ctx.messages) <= Max(2 * max_context_messages, max_context_messages + 3)

\* With a window of 4 and after a trim, the list has grown back to 2W = 8
\* turns, more than W + 3
C25_Witness ==
    /\ Active
    /\ max_context_messages = 4
    /\ Len(log) > 9
    /\ Len(ctx.messages) = 8
    /\ ret.op = "add_message"

\* A step that is a call of analyze_conversation_phase: the only action that
\* returns under that name, and not the recording of an earlier return
AnalyzeStep == ret'.op = "analyze_conversation_phase" /\ ret'.prev = ret.op /\ observed' = observed

\* C26 as stated: with at least 2 messages, the text analyze_conversation_phase
\* scores is built from the min(6, u) most recent user-role turns of the
\* retained messages, u being the number of retained user-role turns, however
\* many assistant or system turns lie between them; the phase returned is the
\* one that text scores highest.
TextOf(contents) == Join(<<" ">>, [i \in 1..Len(contents) |-> Lower(contents[i])])

PhaseScoredHighest(contents) == ConversationPhase[MaxFirst(PhaseScores(TextOf(contents)), 2, 1)]

C27_SummaryStamped_AsStated ==
    [][ (Active /\ Len(ctx.messages) >= 3 /\ UpdateConversationSummary)
        => current_context'[1].summary.last_updated = now ]_vars

\* C27: such a call sets last_updated to the time of the call when a user-role
\* turn is among the 10 most recent messages, whether or not a fragment is
\* appended; when none is, the call returns with the summary, last_updated
\* included, as it was.
C27_SummaryStamped ==
    [][ (Active /\ Len(ctx.messages) >= 3 /\ UpdateConversationSummary)
        => IF \E i \in 1..Len(ctx.messages) :
                  i > Len(ctx.messages) - 10 /\ ctx.messages[i].role = "user"
           THEN current_context'[1].summary.last_updated = now
           ELSE current_context' = current_context ]_vars

\* A call that directly follows another one, and so appends nothing, made
\* after the clock has moved past the last turn, set last_updated to its time
C27_Witness ==
    /\ Active
    /\ ret.op = "update_conversation_summary"
    /\ ret.prev = "update_conversation_summary"
    /\ Len(ctx.messages) = 3
    /\ ctx.summary.mentioned_needs # <<>>
    /\ ctx.summary.last_updated = now
    /\ ctx.summary.last_updated > ctx.last_activity

\* C29: for every window size W >= 1 and after any sequence of add_message
\* calls, no turn is in messages twice: the first 3 and the last W turns kept by
\* a trim never overlap. kept lists, for each entry of messages, which turn of
\* the conversation it is.
C29_NoTurnTwice ==
    (Active /\ max_context_messages >= 1)
    => /\ Len(kept) = Len(ctx.messages)
       /\ \A i \in 1..Len(kept) : \A j \in 1..Len(kept) : i # j => kept[i] # kept[j]

\* C28: total_interactions is the number of add_message executions since the
\* conversation was started, whatever their role, the auto-starting call
\* included, and trimming never lowers it; hence total_interactions is at least
\* len(messages). Stated for windows of at least one turn.
C28_InteractionsCount ==
    (Active /\ max_context_messages >= 1)
    => /\ ctx.total_interactions = Len(log)
       /\ ctx.total_interactions >= Len(ctx.messages)

\* C30: at most one lead record is created per conversation: over any sequence
\* of update_lead_info calls on one conversation with a gateway configured,
\* runs in which get_lead or create_lead return nothing on an error included,
\* once create_lead has succeeded and its identifier was adopted, every later
\* update_lead_info in which get_lead returns calls update_lead and creates
\* no further record.
C30_OneLeadPerConversation ==
    [][ ( /\ Active
          /\ db_client # None
          /\ ret'.op = "update_lead_info"
          /\ Len(ret'.gateway) = 2
          /\ Len(leads) >= 1
          /\ ctx.lead_id = leads[Len(leads)].id )
        => /\ ret'.gateway = <<"get_lead", "update_lead">>
           /\ Len(leads') = Len(leads) ]_vars

====
